---- MODULE Spec2Model ----
(***************************************************************************)
(* A model of the evaluation engine of elvish (package eval, eval.go):     *)
(* the Evaler with its global namespace and module registry, evaluation    *)
(* contexts (evalCtx) with their ports, fork / port / growPorts,           *)
(* ResolveVar, PEval / errorf, PprintError, and the interactive entry      *)
(* points Source / SourceText / EvalInteractive with their drain worker.   *)
(*                                                                         *)
(* Pointers are modelled as indices into heaps (sequences); 0 is nil.      *)
(*   nss    : the namespaces (Go maps, reference types); nss[1] is         *)
(*            ev.global                                                    *)
(*   boxes  : the Variable boxes (value held by each)                      *)
(*   ports  : the Port objects                                             *)
(*   arrays : the backing arrays of []*Port slices                         *)
(*   ctxs   : the evalCtx objects                                          *)
(*   chans  : the channels made by EvalInteractive, one per call           *)
(***************************************************************************)
EXTENDS Integers, Sequences, FiniteSets, TLC

VARIABLES
    nss, boxes, mod,            \* Evaler: namespaces, Variable boxes, ev.mod
    ctxs, arrays, ports,        \* evalCtx objects, []*Port arrays, Port objects
    chans, outDone, workers,    \* per call: outCh, outDone, the drain goroutine
    stdout,                     \* what was printed during the current call
    sent,                       \* the values written to outCh during the current call
    pc, stack, text, err,       \* the calling thread: position, frames, locals
    ret, ncalls,                \* what the last call returned; calls made
    caught,                     \* where exceptions of the current call were caught
    thrown,                     \* the exceptions errorf raised in the current call
    fname,                      \* the argument of Source
    closed,                     \* the file handles closed so far
    parent,                     \* the context each context was forked from, 0 for none
    decl,                       \* the last declaration made by an operation
    q                           \* the last call of a pure function and its result

heapVars == <<nss, boxes, mod, ctxs, arrays, ports>>
relayVars == <<chans, outDone, workers, stdout, sent>>
threadVars == <<pc, stack, text, err, ret, ncalls, caught, thrown, fname>>
vars == <<nss, boxes, mod, ctxs, arrays, ports, chans, outDone, workers,
          stdout, sent, pc, stack, text, err, ret, ncalls, caught, thrown,
          fname, closed, parent, decl, q>>
auxVars == <<closed, parent, decl, q>>

-----------------------------------------------------------------------------
(* Bounds of the model *)

\* the values an op writes to descriptor 1 in one evaluation (> outChanSize)
MaxWrites == 34
\* the nesting of contexts in one evaluation: the top-level one and the
\* forks below it that are in use at once
MaxDepth == 4
\* the top-level calls made on one Evaler
MaxCalls == 2

(* Program constants *)

outChanSize == 32
outChanLeader == "▶ "
FnPrefix == "&"

Nil == 0


-----------------------------------------------------------------------------
(* Error values *)

NoError == [kind |-> "nil"]
IOError(f) == [kind |-> "io", fname |-> f]
UTF8Error(f) == [kind |-> "utf8", fname |-> f]
ParseError == [kind |-> "parse"]
CompileError == [kind |-> "compile"]

-----------------------------------------------------------------------------
(* Values of type Variable: a pointer variable is its box, an environment  *)
(* variable is named by the environment variable it reads, NilVar is the   *)
(* nil interface value.                                                    *)

NilVar == [kind |-> "nil", box |-> 0, name |-> ""]
PtrVar(b) == [kind |-> "ptr", box |-> b, name |-> ""]
newEnvVariable(name) == [kind |-> "env", box |-> 0, name |-> name]

(* Go maps: m[k] = v, and the one-result index expression m[k], which is   *)
(* the zero value when k is not a key.                                     *)

EmptyMap == <<>>
MapPut(m, k, v) == [x \in DOMAIN m \cup {k} |-> IF x = k THEN v ELSE m[x]]
MapIndex(m, k) == IF k \in DOMAIN m THEN m[k] ELSE NilVar

-----------------------------------------------------------------------------
(* NewEvaler: the initial global namespace, one fresh pointer variable per *)
(* name.  builtinFns, the catalog of built-in functions, is represented by *)
(* one function, put.                                                      *)

builtinFns == <<"put">>
GlobalNames ==
    <<"pid", "ok", "true", "false", "paths">>
        \o [i \in 1..Len(builtinFns) |-> FnPrefix \o builtinFns[i]]
NewEvalerBoxes == [i \in 1..Len(GlobalNames) |-> GlobalNames[i]]
NewEvalerGlobal ==
    [n \in {GlobalNames[i] : i \in 1..Len(GlobalNames)} |->
        PtrVar(CHOOSE i \in 1..Len(GlobalNames) : GlobalNames[i] = n)]

\* ev.global, the namespace the Evaler holds (a reference into nss)
evGlobal == 1

\* Evaler.Global: the same map, converted to map[string]Variable
Global == nss[evGlobal]

-----------------------------------------------------------------------------
(* Contexts and ports *)

\* file handles (*os.File) are numbered; Nil is no file
osStdin == 1
osStdout == 2
osStderr == 3

Port(File, Chan, CloseFile, CloseChan) ==
    [File |-> File, Chan |-> Chan, CloseFile |-> CloseFile, CloseChan |-> CloseChan]

\* a top-level context with a local namespace of its own
NewTopEvalCtxOwnLocal(ev, name, txt, portsArr, upNs) ==
    [Evaler |-> ev, name |-> name, text |-> txt, context |-> "top",
     local |-> upNs, up |-> upNs, ports |-> portsArr]

\* NewTopEvalCtx: local is ev.global itself, up a fresh empty namespace
\* (upNs is the reference of the freshly made ns{}), the ports slice is
\* the caller's.
NewTopEvalCtx(ev, name, txt, portsArr, upNs) ==
    [Evaler |-> ev, name |-> name, text |-> txt, context |-> "top",
     local |-> evGlobal, up |-> upNs, ports |-> portsArr]

\* a fork that copies the ports as they are
ForkPortKeepsFlags(p) == p

\* a fork that copies the file of a port and not its channel
ForkPortDropsChan(p) == Port(p.File, Nil, FALSE, FALSE)

\* the Port fork makes from the port p of its receiver
ForkPort(p) == Port(p.File, p.Chan, FALSE, FALSE)

\* fork dereferences every element of ec.ports: a nil element is a nil
\* pointer dereference
ForkPanics(ec) == \E i \in 1..Len(arrays[ctxs[ec].ports]) : arrays[ctxs[ec].ports][i] = Nil

\* the Port objects fork allocates, in the order of ec.ports
ForkNewPorts(ec) ==
    LET old == arrays[ctxs[ec].ports]
    IN  [i \in 1..Len(old) |-> ForkPort(ports[old[i]])]

\* a fork that enters a new scope: the child's local namespace is not
\* the parent's
ForkCtxNewScope(ec, newContext, newArr) ==
    [Evaler |-> ctxs[ec].Evaler, name |-> ctxs[ec].name, text |-> ctxs[ec].text,
     context |-> newContext, local |-> ctxs[ec].up, up |-> ctxs[ec].local,
     ports |-> newArr]

\* a fork that keeps the phase label of its receiver
ForkCtxKeepsLabel(ec, newContext, newArr) ==
    [Evaler |-> ctxs[ec].Evaler, name |-> ctxs[ec].name, text |-> ctxs[ec].text,
     context |-> ctxs[ec].context, local |-> ctxs[ec].local, up |-> ctxs[ec].up,
     ports |-> newArr]

\* the evalCtx fork returns; newArr is the reference of newPorts
ForkCtx(ec, newContext, newArr) ==
    [Evaler |-> ctxs[ec].Evaler, name |-> ctxs[ec].name, text |-> ctxs[ec].text,
     context |-> newContext, local |-> ctxs[ec].local, up |-> ctxs[ec].up,
     ports |-> newArr]

\* a fork that copies ec.ports shallowly: the child has the slice of its
\* receiver
forkSharesPorts(ec, newContext) ==
    /\ ports' = ports
    /\ arrays' = arrays
    /\ ctxs' = Append(ctxs, ForkCtx(ec, newContext, ctxs[ec].ports))

\* fork as a step on the heap: allocates the ports, the slice and the context
fork(ec, newContext) ==
    LET n == Len(arrays[ctxs[ec].ports])
        base == Len(ports)
    IN  /\ ports' = ports \o ForkNewPorts(ec)
        /\ arrays' = Append(arrays, [i \in 1..n |-> base + i])
        /\ ctxs' = Append(ctxs, ForkCtx(ec, newContext, Len(arrays) + 1))

\* a range check that is off by one: the last element is out of range
portShort(ec, i) ==
    IF i >= Len(arrays[ctxs[ec].ports]) - 1 THEN Nil ELSE arrays[ctxs[ec].ports][i + 1]

\* port(i): descriptors count from 0, sequences from 1
port(ec, i) ==
    IF i >= Len(arrays[ctxs[ec].ports]) THEN Nil ELSE arrays[ctxs[ec].ports][i + 1]

\* the slice growPorts makes: n elements, the old ones copied over
GrownPorts(old, n) == [i \in 1..n |-> IF i <= Len(old) THEN old[i] ELSE Nil]

-----------------------------------------------------------------------------
(* ResolveVar *)

may(ns, n) == ns = "" \/ ns = n

\* the captured-enclosing namespace consulted before the local one
ResolveVarUpFirst(ec, ns, name) ==
    IF ns = "env" THEN newEnvVariable(name)
    ELSE IF ns \in DOMAIN mod THEN MapIndex(nss[mod[ns]], name)
    ELSE IF may(ns, "up") /\ name \in DOMAIN nss[ctxs[ec].up]
         THEN nss[ctxs[ec].up][name]
    ELSE IF may(ns, "local") /\ name \in DOMAIN nss[ctxs[ec].local]
         THEN nss[ctxs[ec].local][name]
    ELSE NilVar

\* a module that does not bind the name falls through to local and up
ResolveVarModFallsThrough(ec, ns, name) ==
    IF ns = "env" THEN newEnvVariable(name)
    ELSE IF ns \in DOMAIN mod /\ name \in DOMAIN nss[mod[ns]] THEN nss[mod[ns]][name]
    ELSE IF may(ns, "local") /\ name \in DOMAIN nss[ctxs[ec].local]
         THEN nss[ctxs[ec].local][name]
    ELSE IF may(ns, "up") /\ name \in DOMAIN nss[ctxs[ec].up]
         THEN nss[ctxs[ec].up][name]
    ELSE NilVar

ResolveVar(ec, ns, name) ==
    IF ns = "env" THEN newEnvVariable(name)
    ELSE IF ns \in DOMAIN mod THEN MapIndex(nss[mod[ns]], name)
    ELSE IF may(ns, "local") /\ name \in DOMAIN nss[ctxs[ec].local]
         THEN nss[ctxs[ec].local][name]
    ELSE IF may(ns, "up") /\ name \in DOMAIN nss[ctxs[ec].up]
         THEN nss[ctxs[ec].up][name]
    ELSE NilVar


-----------------------------------------------------------------------------
(* The file system Source reads, and utf8.Valid.  A file is a sequence of  *)
(* bytes, or Unreadable; a Go string is its sequence of bytes.             *)

Unreadable == <<-1>>
FileNames == {"missing.elv", "bad.elv", "cut.elv", "ok.elv"}
FileBytes(f) ==
    CASE f = "missing.elv" -> Unreadable
      [] f = "bad.elv" -> <<120, 255>>
      [] f = "cut.elv" -> <<195>>
      [] f = "ok.elv" -> <<195, 169>>

\* the texts the host passes to SourceText and EvalInteractive directly
Texts == {<<195, 169>>}

IsCont(b) == b >= 128 /\ b <= 191

\* the length of the valid encoding b starts with at position i, 0 if none
RuneLen(b, i) ==
    LET c == b[i]
        has(k) == i + k <= Len(b)
    IN  IF c < 128 THEN 1
        ELSE IF c >= 194 /\ c <= 223
             THEN IF has(1) /\ IsCont(b[i + 1]) THEN 2 ELSE 0
        ELSE IF c >= 224 /\ c <= 239
             THEN IF /\ has(2)
                     /\ IsCont(b[i + 1]) /\ IsCont(b[i + 2])
                     /\ (c = 224 => b[i + 1] >= 160)
                     /\ (c = 237 => b[i + 1] <= 159)
                  THEN 3 ELSE 0
        ELSE IF c >= 240 /\ c <= 244
             THEN IF /\ has(3)
                     /\ IsCont(b[i + 1]) /\ IsCont(b[i + 2]) /\ IsCont(b[i + 3])
                     /\ (c = 240 => b[i + 1] >= 144)
                     /\ (c = 244 => b[i + 1] <= 143)
                  THEN 4 ELSE 0
        ELSE 0

RECURSIVE ValidFrom(_, _)
ValidFrom(b, i) ==
    IF i > Len(b) THEN TRUE
    ELSE IF RuneLen(b, i) = 0 THEN FALSE
    ELSE ValidFrom(b, i + RuneLen(b, i))

utf8Valid(b) == ValidFrom(b, 1)

\* readFileUTF8 without the utf8.Valid test
readFileUnchecked(f) ==
    IF FileBytes(f) = Unreadable THEN [src |-> <<>>, err |-> IOError(f)]
    ELSE [src |-> FileBytes(f), err |-> NoError]

\* readFileUTF8: the string read and the error
readFileUTF8(f) ==
    IF FileBytes(f) = Unreadable THEN [src |-> <<>>, err |-> IOError(f)]
    ELSE IF ~utf8Valid(FileBytes(f)) THEN [src |-> <<>>, err |-> UTF8Error(f)]
    ELSE [src |-> FileBytes(f), err |-> NoError]

-----------------------------------------------------------------------------
(* The calling thread.  pc is its position:                                *)
(*   idle             in the host, no call of this package in progress     *)
(*   Source, SourceText, EvalInteractive, Eval                             *)
(*                    at the start of that function                        *)
(*   op               inside op(ec), called by PEval                       *)
(*   close            before close(outCh)                                  *)
(*   wait             at <-outDone                                         *)
(*   crashed          a panic left the package                             *)
(* stack holds the frames from PEval down; catch tells whether the frame   *)
(* has deferred a recovery.  A frame also records how many arrays and      *)
(* ports there were before its context was made: what is allocated above   *)
(* these marks is garbage once the frame has exited.                       *)

Frame(fn, ec, catch, arrBase, portBase) ==
    [fn |-> fn, ec |-> ec, catch |-> catch, arrBase |-> arrBase, portBase |-> portBase]

\* PEval's frame: defer errutil.Catch(&ex)
PEvalFrame(ec) == Frame("PEval", ec, TRUE, 0, 0)

\* the frame of an operation running on the context ec, about to be
\* forked: no recovery
OpFrame(ec) == Frame("op", ec, FALSE, Len(arrays), Len(ports))

\* the context the running operation was given
CurEc == stack[Len(stack)].ec

\* the channel and the worker of the EvalInteractive call in progress
outCh == Len(chans)

\* no declaration made yet
NoDecl == [ec |-> 0, top |-> FALSE, name |-> "", var |-> NilVar, val |-> "", fresh |-> FALSE]

Names == {"x"}
Values == {"v1", "v2"}
Labels == {"pipeline"}

\* the host calls Source, SourceText or EvalInteractive.  The objects of
\* the call before are garbage by now and are dropped from the heaps.
HostCall ==
    /\ pc = "idle" /\ ncalls < MaxCalls
    /\ \/ \E f \in FileNames : fname' = f /\ text' = <<>> /\ pc' = "Source"
       \/ \E t \in Texts : fname' = "" /\ text' = t /\ pc' = "SourceText"
       \/ \E t \in Texts : fname' = "" /\ text' = t /\ pc' = "EvalInteractive"
    /\ ncalls' = ncalls + 1
    /\ ctxs' = <<>> /\ arrays' = <<>> /\ ports' = <<>>
    /\ nss' = <<nss[evGlobal]>>
    /\ stdout' = <<>> /\ sent' = <<>> /\ caught' = <<>> /\ thrown' = <<>>
    /\ err' = NoError /\ ret' = NoError
    /\ UNCHANGED <<boxes, mod, chans, outDone, workers, stack, auxVars>>

\* return e: back in the host
Return(e) == pc' = "idle" /\ ret' = e

\* Source: readFileUTF8, then SourceText
Source ==
    /\ pc = "Source"
    /\ LET r == readFileUTF8(fname)
       IN  IF r.err # NoError
           THEN Return(r.err) /\ UNCHANGED text
           ELSE pc' = "SourceText" /\ text' = r.src /\ UNCHANGED ret
    /\ UNCHANGED <<heapVars, relayVars, stack, err, ncalls, caught, thrown,
                   fname, auxVars>>

\* SourceText: parse.Parse(src), whose outcome is the parser's
SourceText ==
    /\ pc = "SourceText"
    /\ \E perr \in {NoError, ParseError} :
          IF perr # NoError
          THEN Return(perr)
          ELSE pc' = "EvalInteractive" /\ UNCHANGED ret
    /\ UNCHANGED <<heapVars, relayVars, stack, text, err, ncalls, caught,
                   thrown, fname, auxVars>>

\* the drain goroutine as go func() leaves it: about to receive
NewWorker == [pc |-> "range", v |-> 0]

\* EvalInteractive up to the call of Eval: the two channels, the
\* goroutine, the three ports
EvalInteractive ==
    /\ pc = "EvalInteractive"
    /\ chans' = Append(chans, [buf |-> <<>>, closed |-> FALSE])
    /\ outDone' = Append(outDone, FALSE)
    /\ workers' = Append(workers, NewWorker)
    /\ ports' = <<Port(osStdin, Nil, FALSE, FALSE),
                  Port(osStdout, Len(chans) + 1, FALSE, FALSE),
                  Port(osStderr, Nil, FALSE, FALSE)>>
    /\ arrays' = <<<<1, 2, 3>>>>
    /\ pc' = "Eval"
    /\ UNCHANGED <<nss, boxes, mod, ctxs, stdout, sent, stack, text, err, ret,
                   ncalls, caught, thrown, fname, auxVars>>

\* Eval: Compile, whose outcome is the compiler's; then NewTopEvalCtx on
\* the caller's ports and PEval up to the call of op
Eval ==
    /\ pc = "Eval"
    /\ \E cerr \in {NoError, CompileError} :
          IF cerr # NoError
          THEN /\ err' = cerr /\ pc' = "close"
               /\ UNCHANGED <<nss, ctxs, stack>>
          ELSE /\ nss' = Append(nss, EmptyMap)
               /\ ctxs' = <<NewTopEvalCtx(1, "[interactive]", text, 1, Len(nss) + 1)>>
               /\ stack' = <<PEvalFrame(1)>>
               /\ pc' = "op"
               /\ UNCHANGED err
    /\ UNCHANGED <<boxes, mod, arrays, ports, relayVars, text, ret, ncalls,
                   caught, thrown, fname, auxVars>>


-----------------------------------------------------------------------------
(* What op(ec) does, one step at a time.  The operation is PEval's         *)
(* argument: any sequence of these steps is a possible operation.          *)

\* the error value errorf throws
errorf(ec, p, format) ==
    [kind |-> "error", srcname |-> <<ctxs[ec].name, ctxs[ec].context>>,
     type |-> "error", text |-> ctxs[ec].text, pos |-> p, msg |-> format]

\* the innermost frame that recovers, 0 if none does
Catcher ==
    IF \E k \in 1..Len(stack) : stack[k].catch
    THEN CHOOSE k \in 1..Len(stack) :
            stack[k].catch /\ \A j \in (k + 1)..Len(stack) : ~stack[j].catch
    ELSE 0

\* errutil.Catch(&ex) on the exception e: ex is set to the error it carries
Catch(e) == e

\* PEval with an unnamed result: the recovered error is lost
PEvalDropsError(e) == NoError

\* what PEval returns when the exception e was recovered in its frame
PEvalRecovered(e) == Catch(e)

\* what PEval returns after op(ec) has returned
PEvalCompleted == NoError

\* a send on a channel without a capacity
CanSendAlways(ch) == TRUE

\* a channel send: cap(outCh) = outChanSize
CanSend(ch) == Len(chans[ch].buf) < outChanSize

\* the operation writes the next value to the channel of descriptor 1
OpWrite ==
    /\ pc = "op" /\ Len(sent) < MaxWrites
    /\ port(CurEc, 1) # Nil /\ ports[port(CurEc, 1)].Chan # Nil
    /\ LET ch == ports[port(CurEc, 1)].Chan
           v == Len(sent) + 1
       IN  IF chans[ch].closed
           THEN pc' = "crashed" /\ UNCHANGED <<chans, sent>>
           ELSE /\ CanSend(ch)
                /\ chans' = [chans EXCEPT ![ch].buf = Append(@, v)]
                /\ sent' = Append(sent, v)
                /\ UNCHANGED pc
    /\ UNCHANGED <<heapVars, outDone, workers, stdout, stack, text, err, ret,
                   ncalls, caught, thrown, fname, auxVars>>

\* the operation forks its context and runs a nested operation on the fork
OpFork ==
    /\ pc = "op" /\ Len(ctxs) < MaxDepth
    /\ ~ForkPanics(CurEc)
    /\ \E label \in Labels : fork(CurEc, label)
    /\ stack' = Append(stack, OpFrame(Len(ctxs) + 1))
    /\ UNCHANGED <<nss, boxes, mod, relayVars, pc, text, err, ret, ncalls,
                   caught, thrown, fname, auxVars>>

\* the nested operation returns.  Its context, the last one made, is
\* garbage from here on and is dropped from the heaps with its ports.
OpReturn ==
    /\ pc = "op" /\ Len(stack) > 1
    /\ stack' = SubSeq(stack, 1, Len(stack) - 1)
    /\ ctxs' = SubSeq(ctxs, 1, Len(ctxs) - 1)
    /\ arrays' = SubSeq(arrays, 1, stack[Len(stack)].arrBase)
    /\ ports' = SubSeq(ports, 1, stack[Len(stack)].portBase)
    /\ UNCHANGED <<nss, boxes, mod, relayVars, pc, text, err, ret, ncalls,
                   caught, thrown, fname, auxVars>>

\* ec.local[name] gets a variable holding val: a new box when the name is
\* not bound, the bound box set otherwise
Declare(ec, name, val) ==
    LET l == ctxs[ec].local
    IN  IF name \in DOMAIN nss[l] /\ nss[l][name].kind = "ptr"
        THEN /\ boxes' = [boxes EXCEPT ![nss[l][name].box] = val]
             /\ UNCHANGED nss
        ELSE /\ boxes' = Append(boxes, val)
             /\ nss' = [nss EXCEPT ![l] = MapPut(@, name, PtrVar(Len(boxes) + 1))]

OpDeclare ==
    /\ pc = "op"
    /\ \E name \in Names, val \in Values : Declare(CurEc, name, val)
    /\ UNCHANGED <<mod, ctxs, arrays, ports, relayVars, threadVars, auxVars>>

\* the operation calls ec.errorf: the panic unwinds to the innermost
\* frame that recovers
OpErrorf ==
    /\ pc = "op"
    /\ LET e == errorf(CurEc, 0, "boom")
           k == Catcher
       IN  /\ thrown' = Append(thrown, e)
           /\ IF k = 0
              THEN /\ pc' = "crashed" /\ stack' = <<>>
                   /\ UNCHANGED <<caught, err>>
              ELSE /\ caught' = Append(caught, [frame |-> k, fn |-> stack[k].fn,
                                                depth |-> Len(stack)])
                   /\ stack' = SubSeq(stack, 1, k - 1)
                   /\ IF stack[k].fn = "PEval"
                      THEN err' = PEvalRecovered(e) /\ pc' = "close"
                      ELSE UNCHANGED <<err, pc>>
    /\ UNCHANGED <<heapVars, relayVars, text, ret, ncalls, fname, auxVars>>

\* op(ec) returns to PEval, PEval to Eval, Eval to EvalInteractive
OpFinish ==
    /\ pc = "op" /\ Len(stack) = 1
    /\ stack' = <<>>
    /\ err' = PEvalCompleted
    /\ pc' = "close"
    /\ UNCHANGED <<heapVars, relayVars, text, ret, ncalls, caught, thrown,
                   fname, auxVars>>

-----------------------------------------------------------------------------
(* EvalInteractive after Eval *)

\* EvalInteractive without close(outCh)
CloseOutChSkipped ==
    /\ pc = "close"
    /\ pc' = "wait"
    /\ UNCHANGED <<heapVars, chans, outDone, workers, stdout, sent, stack, text,
                   err, ret, ncalls, caught, thrown, fname, auxVars>>

\* close(outCh)
CloseOutCh ==
    /\ pc = "close"
    /\ IF chans[outCh].closed
       THEN pc' = "crashed" /\ UNCHANGED chans
       ELSE chans' = [chans EXCEPT ![outCh].closed = TRUE] /\ pc' = "wait"
    /\ UNCHANGED <<heapVars, outDone, workers, stdout, sent, stack, text, err,
                   ret, ncalls, caught, thrown, fname, auxVars>>

\* EvalInteractive without <-outDone
OutDoneNotAwaited == TRUE

\* <-outDone can proceed: a receive from a closed channel does not block
OutDoneReady == outDone[outCh]

\* <-outDone; return err
WaitOutDone ==
    /\ pc = "wait"
    /\ OutDoneReady
    /\ Return(err)
    /\ UNCHANGED <<heapVars, relayVars, stack, text, err, ncalls, caught,
                   thrown, fname, auxVars>>

-----------------------------------------------------------------------------
(* The drain goroutine of call c:                                          *)
(*   range   at  for v := range outCh                                      *)
(*   print   at  fmt.Printf, holding v                                     *)
(*   close   at  close(outDone), the loop left                             *)
(*   done    returned                                                      *)

\* the line Printf writes for v; v.Repr() is the value's own
RenderLine(v) == <<outChanLeader, v>>

\* a loop that leaves as soon as the channel is closed
RangeNextStopsOnClose(ch) ==
    IF ch.closed THEN "leave" ELSE IF ch.buf # <<>> THEN "take" ELSE "block"

\* a loop that leaves when it finds the channel empty
RangeNextLeavesOnEmpty(ch) ==
    IF ch.buf # <<>> THEN "take" ELSE "leave"

\* what the range loop does next on the channel ch: take the head of the
\* buffer, leave when the channel is closed and drained, block otherwise
RangeNext(ch) ==
    IF ch.buf # <<>> THEN "take" ELSE IF ch.closed THEN "leave" ELSE "block"

WorkerRange(c) ==
    /\ workers[c].pc = "range"
    /\ RangeNext(chans[c]) # "block"
    /\ IF RangeNext(chans[c]) = "take"
       THEN /\ workers' = [workers EXCEPT ![c] = [pc |-> "print", v |-> Head(chans[c].buf)]]
            /\ chans' = [chans EXCEPT ![c].buf = Tail(@)]
       ELSE /\ workers' = [workers EXCEPT ![c] = [pc |-> "close", v |-> 0]]
            /\ UNCHANGED chans
    /\ UNCHANGED <<heapVars, outDone, stdout, sent, threadVars, auxVars>>

WorkerPrint(c) ==
    /\ workers[c].pc = "print"
    /\ stdout' = Append(stdout, RenderLine(workers[c].v))
    /\ workers' = [workers EXCEPT ![c] = [pc |-> "range", v |-> 0]]
    /\ UNCHANGED <<heapVars, chans, outDone, sent, threadVars, auxVars>>

WorkerCloseDone(c) ==
    /\ workers[c].pc = "close"
    /\ outDone' = [outDone EXCEPT ![c] = TRUE]
    /\ workers' = [workers EXCEPT ![c] = [pc |-> "done", v |-> 0]]
    /\ UNCHANGED <<heapVars, chans, stdout, sent, threadVars, auxVars>>

Worker == \E c \in 1..Len(workers) : WorkerRange(c) \/ WorkerPrint(c) \/ WorkerCloseDone(c)

-----------------------------------------------------------------------------
(* The interactive entry points on one Evaler *)

Init ==
    /\ nss = <<NewEvalerGlobal>>
    /\ boxes = NewEvalerBoxes
    /\ mod = EmptyMap
    /\ ctxs = <<>> /\ arrays = <<>> /\ ports = <<>>
    /\ chans = <<>> /\ outDone = <<>> /\ workers = <<>>
    /\ stdout = <<>> /\ sent = <<>>
    /\ pc = "idle" /\ stack = <<>> /\ text = <<>> /\ err = NoError
    /\ ret = NoError /\ ncalls = 0
    /\ caught = <<>> /\ thrown = <<>> /\ fname = ""
    /\ closed = {} /\ parent = <<>> /\ decl = NoDecl /\ q = <<>>

Next ==
    \/ HostCall \/ Source \/ SourceText \/ EvalInteractive \/ Eval
    \/ OpWrite \/ OpFork \/ OpReturn \/ OpDeclare \/ OpErrorf \/ OpFinish
    \/ CloseOutCh \/ WaitOutDone
    \/ Worker

Spec == Init /\ [][Next]_vars


-----------------------------------------------------------------------------
(* Properties of the interactive entry points (checked under Spec) *)

\* the lines the drain worker prints for the values vs
LinesOf(vs) == [i \in 1..Len(vs) |-> <<outChanLeader, vs[i]>>]

\* C1: the values written to the queue of descriptor 1 during the
\* evaluation are rendered each exactly once and in write order (what is
\* printed is at any time the rendering of a prefix of what was written),
\* and when EvalInteractive has returned all of them have been rendered.
C1_AllRenderedBeforeReturn ==
    /\ Len(stdout) <= Len(sent)
    /\ stdout = SubSeq(LinesOf(sent), 1, Len(stdout))
    /\ pc = "idle" => stdout = LinesOf(sent)

\* a call that has returned after writing more values than the queue holds
C1_Witness ==
    /\ pc = "idle" /\ ncalls > 0
    /\ Len(sent) > outChanSize
    /\ stdout = LinesOf(sent)

\* PEval has been called in the current call and has returned
PEvalReturned == ctxs # <<>> /\ stack = <<>> /\ pc # "crashed"

\* C2: a non-local exit raised by errorf on a context any number of forks
\* below the top-level one is caught exactly once, by the frame of PEval
\* (the bottom frame) and by no frame between; PEval then returns the
\* error thrown, and it returns no error when the operation completes
\* without a non-local exit.
C2_CaughtOnceAtPEval ==
    /\ pc # "crashed"
    /\ Len(thrown) <= 1
    /\ Len(caught) = Len(thrown)
    /\ \A i \in 1..Len(caught) : caught[i].fn = "PEval" /\ caught[i].frame = 1
    /\ PEvalReturned =>
          IF thrown # <<>> THEN err = thrown[1] ELSE err = NoError

\* an exit raised MaxDepth - 1 forks below the top-level context, caught
C2_Witness ==
    /\ PEvalReturned
    /\ Len(thrown) = 1 /\ err = thrown[1]
    /\ thrown[1].srcname = <<"[interactive]", "pipeline">>
    /\ caught = <<[frame |-> 1, fn |-> "PEval", depth |-> MaxDepth]>>

\* the evaluation of the current call failed: Compile or the operation
EvalFailed == thrown # <<>> \/ err # NoError

\* C7: when the evaluation inside EvalInteractive fails, by a compile
\* error or by a non-local exit after k values were written, then at the
\* return of EvalInteractive the queue has been closed, the k values have
\* all been rendered, the worker has terminated, and what is returned is
\* the error of the evaluation; until then the worker keeps draining (it
\* leaves its loop only on a closed and empty queue).
C7_FailureStillDrains ==
    /\ (pc = "idle" /\ EvalFailed) =>
          /\ chans[outCh].closed /\ chans[outCh].buf = <<>>
          /\ workers[outCh].pc = "done" /\ outDone[outCh]
          /\ stdout = LinesOf(sent)
          /\ ret = err
          /\ ret = IF thrown # <<>> THEN thrown[1] ELSE CompileError
    /\ \A c \in 1..Len(workers) :
          workers[c].pc \in {"close", "done"} => chans[c].closed /\ chans[c].buf = <<>>

\* a call that returned the error of an exit raised after some writes
C7_Witness ==
    /\ pc = "idle" /\ thrown # <<>> /\ ret = thrown[1]
    /\ Len(sent) >= 2 /\ stdout = LinesOf(sent)
    /\ workers[outCh].pc = "done"

\* a call of Source or SourceText is before its call of EvalInteractive
Loading == pc \in {"Source", "SourceText"}

\* C9: Source and SourceText fail early.  A file that cannot be read or
\* whose bytes are not valid UTF-8 makes Source return that error at
\* once; a parse error makes SourceText return it at once; and no step
\* before the call of EvalInteractive compiles, evaluates, starts a worker
\* or changes the global namespace or the module registry.
C9_SourceFailsEarly ==
    [][/\ (pc = "Source" /\ fname = "missing.elv") =>
              pc' = "idle" /\ ret' = IOError(fname)
       /\ (pc = "Source" /\ fname \in {"bad.elv", "cut.elv"}) =>
              pc' = "idle" /\ ret' = UTF8Error(fname)
       /\ (pc = "SourceText" /\ pc' # "EvalInteractive") =>
              pc' = "idle" /\ ret' = ParseError
       /\ Loading =>
              UNCHANGED <<nss, boxes, mod, ctxs, arrays, ports, chans, outDone,
                          workers, stdout, sent, stack>>
      ]_vars

\* a second call, of Source on a file that is not valid UTF-8, has
\* returned its error; the first call had bound x in the global namespace
C9_Witness ==
    /\ pc = "idle" /\ ncalls = 2
    /\ ret = UTF8Error("cut.elv")
    /\ "x" \in DOMAIN Global
    /\ Len(workers) = 1 /\ ctxs = <<>>


-----------------------------------------------------------------------------
(* Contexts and their ports: Eval called by a host with ports of its own,  *)
(* and what the running operation does with its context: fork it for a     *)
(* nested operation, growPorts, a redirection that rebinds a descriptor to *)
(* a file or a queue the context opens, a declaration, and the exit of its *)
(* frame, which closes what its ports own.  Evaluation is synchronous: the *)
(* running operation is the one of the innermost frame.  pc is "host"      *)
(* between evaluations, "ctx" during one, "crashed" once a nil port was    *)
(* dereferenced.                                                           *)

\* the length growPorts is asked for
MaxPorts == 4
\* the files and queues opened by redirections in one evaluation
MaxOpens == 1

Ctxs == 1..Len(ctxs)

\* the elements of the slice of the context c
Slice(c) == arrays[ctxs[c].ports]

\* the ports of the context c that are present, as references
PortRefs(c) == {Slice(c)[i] : i \in 1..Len(Slice(c))} \ {Nil}

\* the file handles ever in use; a newly opened file has a new handle
StdHandles == {osStdin, osStdout, osStderr}
Handles == {ports[i].File : i \in 1..Len(ports)} \cup StdHandles \cup closed
FreshHandle == CHOOSE h \in 1..(Cardinality(Handles) + 1) : h \notin Handles \cup {Nil}

\* the host calls Eval with ports of its own making: the standard streams
\* and a queue on descriptor 1, owned by these ports or not.  The objects
\* of the evaluation before are garbage by now.
CtxEval ==
    /\ pc = "host" /\ ncalls < MaxCalls
    /\ \E own \in BOOLEAN :
          ports' = <<Port(osStdin, Nil, own, FALSE),
                     Port(osStdout, 1, own, own),
                     Port(osStderr, Nil, own, FALSE)>>
    /\ chans' = <<[buf |-> <<>>, closed |-> FALSE]>>
    /\ closed' = {}
    /\ arrays' = <<<<1, 2, 3>>>>
    /\ nss' = <<nss[evGlobal], EmptyMap>>
    /\ ctxs' = <<NewTopEvalCtx(1, "[eval]", <<120>>, 1, 2)>>
    /\ stack' = <<PEvalFrame(1)>>
    /\ parent' = <<0>>
    /\ ncalls' = ncalls + 1
    /\ pc' = "ctx"
    /\ decl' = [decl EXCEPT !.ec = 0]
    /\ UNCHANGED <<boxes, mod, outDone, workers, stdout, sent, text, err, ret,
                   caught, thrown, fname, q>>

\* the running operation forks its context for a nested operation
CtxFork ==
    /\ pc = "ctx" /\ Len(stack) < MaxDepth
    /\ IF ForkPanics(CurEc)
       THEN /\ pc' = "crashed"
            /\ UNCHANGED <<ctxs, arrays, ports, parent, stack>>
       ELSE /\ \E label \in Labels : fork(CurEc, label)
            /\ parent' = Append(parent, CurEc)
            /\ stack' = Append(stack, OpFrame(Len(ctxs) + 1))
            /\ UNCHANGED pc
    /\ UNCHANGED <<nss, boxes, mod, relayVars, text, err, ret, ncalls, caught,
                   thrown, fname, closed, decl, q>>

\* growPorts without the early return: the slice is remade with n
\* elements whatever its length
growPortsAlways(ec, n) ==
    /\ arrays' = Append(arrays, GrownPorts(arrays[ctxs[ec].ports], n))
    /\ ctxs' = [ctxs EXCEPT ![ec].ports = Len(arrays) + 1]

\* ec.growPorts(n)
growPorts(ec, n) ==
    IF Len(Slice(ec)) >= n
    THEN UNCHANGED <<arrays, ctxs>>
    ELSE /\ arrays' = Append(arrays, GrownPorts(Slice(ec), n))
         /\ ctxs' = [ctxs EXCEPT ![ec].ports = Len(arrays) + 1]

CtxGrowPorts ==
    /\ pc = "ctx"
    /\ \E n \in 0..MaxPorts : growPorts(CurEc, n)
    /\ UNCHANGED <<nss, boxes, mod, ports, relayVars, threadVars, auxVars>>

\* a redirection: an element of ec.ports becomes a new port on a file, or
\* on a queue, that the context opens and owns
CtxRebind ==
    /\ pc = "ctx"
    /\ Cardinality(Handles \ StdHandles) + Len(chans) - 1 < MaxOpens
    /\ \E i \in 1..Len(Slice(CurEc)) :
          /\ arrays' = [arrays EXCEPT ![ctxs[CurEc].ports][i] = Len(ports) + 1]
          /\ \/ /\ ports' = Append(ports, Port(FreshHandle, Nil, TRUE, FALSE))
                /\ UNCHANGED chans
             \/ /\ ports' = Append(ports, Port(Nil, Len(chans) + 1, FALSE, TRUE))
                /\ chans' = Append(chans, [buf |-> <<>>, closed |-> FALSE])
    /\ UNCHANGED <<nss, boxes, mod, ctxs, outDone, workers, stdout, sent,
                   threadVars, auxVars>>

\* what the exit of the frame of ec closes: the files and the queues of
\* the ports of ec that own them
ClosedFiles(ec) == {ports[p].File : p \in {x \in PortRefs(ec) : ports[x].CloseFile}}
ClosedChans(ec) == {ports[p].Chan : p \in {x \in PortRefs(ec) : ports[x].CloseChan}}

\* the frame of the running operation exits.  A forked context is garbage
\* from here on; the top-level one stays until the next evaluation.
CtxExit ==
    /\ pc = "ctx"
    /\ closed' = closed \cup ClosedFiles(CurEc)
    /\ chans' = [c \in 1..Len(chans) |->
                    IF c \in ClosedChans(CurEc) THEN [chans[c] EXCEPT !.closed = TRUE]
                    ELSE chans[c]]
    /\ stack' = SubSeq(stack, 1, Len(stack) - 1)
    /\ IF Len(stack) = 1
       THEN pc' = "host" /\ UNCHANGED <<ctxs, arrays, ports, parent, decl>>
       ELSE /\ ctxs' = SubSeq(ctxs, 1, Len(ctxs) - 1)
            /\ arrays' = SubSeq(arrays, 1, stack[Len(stack)].arrBase)
            /\ ports' = SubSeq(ports, 1, stack[Len(stack)].portBase)
            /\ parent' = SubSeq(parent, 1, Len(parent) - 1)
            /\ decl' = IF decl.ec = CurEc THEN [decl EXCEPT !.ec = 0] ELSE decl
            /\ UNCHANGED pc
    /\ UNCHANGED <<nss, boxes, mod, outDone, workers, stdout, sent, text, err,
                   ret, ncalls, caught, thrown, fname, q>>

\* the running operation declares a name in the local namespace of its
\* context
CtxDeclare ==
    /\ pc = "ctx"
    /\ \E name \in Names, val \in Values :
          /\ Declare(CurEc, name, val)
          /\ decl' = [ec |-> CurEc, top |-> parent[CurEc] = 0,
                      name |-> name, val |-> val,
                      var |-> nss'[ctxs[CurEc].local][name],
                      fresh |-> name \notin DOMAIN nss[ctxs[CurEc].local]]
    /\ UNCHANGED <<mod, ctxs, arrays, ports, relayVars, threadVars, closed,
                   parent, q>>

InitCtx ==
    /\ nss = <<NewEvalerGlobal>>
    /\ boxes = NewEvalerBoxes
    /\ mod = EmptyMap
    /\ ctxs = <<>> /\ arrays = <<>> /\ ports = <<>>
    /\ chans = <<>> /\ outDone = <<>> /\ workers = <<>>
    /\ stdout = <<>> /\ sent = <<>>
    /\ pc = "host" /\ stack = <<>> /\ text = <<>> /\ err = NoError
    /\ ret = NoError /\ ncalls = 0
    /\ caught = <<>> /\ thrown = <<>> /\ fname = ""
    /\ closed = {} /\ parent = <<>> /\ decl = NoDecl /\ q = <<>>

\* contexts and their ports
NextCtx ==
    \/ CtxEval \/ CtxFork \/ CtxGrowPorts \/ CtxRebind \/ CtxExit

SpecCtx == InitCtx /\ [][NextCtx]_vars

\* contexts and their namespaces
NextNs ==
    \/ CtxEval \/ CtxFork \/ CtxDeclare \/ CtxExit

SpecNs == InitCtx /\ [][NextNs]_vars


-----------------------------------------------------------------------------
(* Properties of contexts and ports (checked under SpecCtx) *)

\* the contexts that hold a port owning the file h, the queue ch
FileOwners(h) ==
    {c \in Ctxs : \E p \in PortRefs(c) : ports[p].File = h /\ ports[p].CloseFile}
ChanOwners(ch) ==
    {c \in Ctxs : \E p \in PortRefs(c) : ports[p].Chan = ch /\ ports[p].CloseChan}

AtMostOneOwner ==
    /\ \A h \in Handles \ {Nil} : Cardinality(FileOwners(h)) <= 1
    /\ \A ch \in 1..Len(chans) : Cardinality(ChanOwners(ch)) <= 1

\* the files and the queues the ports of the context c refer to
FilesHeld(c) == {ports[p].File : p \in PortRefs(c)} \ {Nil}
ChansHeld(c) == {ports[p].Chan : p \in PortRefs(c)} \ {Nil}

\* this step is the exit of the frame of a forked context
ForkExits == pc = "ctx" /\ Len(stack) > 1 /\ Len(stack') < Len(stack)

\* C3: in every state reached from a top-level context by forks (forks of
\* forks included), growPorts, redirections and exits, at most one
\* context holds a port that owns a given file, and at most one a port
\* that owns a given queue; and the exit of a forked context, which closes
\* what its ports own, closes no file and no queue held by its parent.
C3_SingleOwner ==
    /\ []AtMostOneOwner
    /\ [][ForkExits =>
            /\ \A h \in FilesHeld(parent[CurEc]) : h \in closed' => h \in closed
            /\ \A ch \in ChansHeld(parent[CurEc]) : chans'[ch].closed = chans[ch].closed
         ]_vars

\* a fork of a fork exists below a top-level context that owns its files,
\* after a forked context has exited and closed a file it had opened
C3_Witness ==
    /\ pc = "ctx" /\ Len(ctxs) >= 3
    /\ FileOwners(osStdin) = {1}
    /\ closed \ StdHandles # {}
    /\ osStdin \in FilesHeld(3)

-----------------------------------------------------------------------------
(* Properties of contexts and namespaces (checked under SpecNs) *)

\* the last declaration was made through a forked context that is still
\* there
DeclaredInFork == decl.ec # 0 /\ parent[decl.ec] # 0

\* C4, as claimed: after forking a context and declaring a name only in
\* the child's local namespace, resolving that name in the parent returns
\* absent and resolving it in the child returns the declared variable.
C4_AbsentInParent ==
    (DeclaredInFork /\ decl.fresh) =>
        /\ ResolveVar(parent[decl.ec], "", decl.name) = NilVar
        /\ ResolveVar(decl.ec, "", decl.name) = decl.var

\* C4, amended: the local namespace of a forked context is the local
\* namespace of its parent (fork shares it by reference), so after a name
\* is declared in the child's local namespace, resolving it in the child
\* and in the parent returns the same declared variable.
C4_SharedWithParent ==
    DeclaredInFork =>
        /\ ctxs[decl.ec].local = ctxs[parent[decl.ec]].local
        /\ decl.var # NilVar
        /\ ResolveVar(decl.ec, "", decl.name) = decl.var
        /\ ResolveVar(parent[decl.ec], "", decl.name) = decl.var

\* a name not bound before was declared through a fork of a fork
C4_Witness ==
    /\ DeclaredInFork /\ decl.fresh /\ decl.ec >= 3
    /\ ResolveVar(parent[decl.ec], "", decl.name) = decl.var

\* the last declaration was made through a top-level context
DeclaredAtTop == decl.top /\ decl.name # ""

\* C8: a binding added to the local namespace of a top-level context
\* during an evaluation is the binding Global() shows, during the
\* evaluation and after it has returned, and every top-level context,
\* those of later evaluations on the same Evaler included, resolves the
\* name to the same variable box, holding the value declared.
C8_GlobalRoundTrip ==
    DeclaredAtTop =>
        /\ MapIndex(Global, decl.name) = decl.var
        /\ decl.var.kind = "ptr" /\ boxes[decl.var.box] = decl.val
        /\ \A c \in Ctxs : parent[c] = 0 =>
              /\ ResolveVar(c, "", decl.name) = decl.var
              /\ nss[ctxs[c].local] = Global

\* a later evaluation is running and resolves the name that the
\* evaluation before declared
C8_Witness ==
    /\ DeclaredAtTop /\ decl.ec = 0
    /\ ncalls = 2 /\ pc = "ctx"
    /\ ResolveVar(1, "", decl.name) = decl.var
    /\ boxes[decl.var.box] = "v2"


-----------------------------------------------------------------------------
(* ResolveVar as a function of its inputs: a context whose local and       *)
(* captured-enclosing namespaces and whose module registry are drawn from  *)
(* bounded sets, resolved with every qualifier and name.  Module names are *)
(* names: they are not empty, and may coincide with "local", "up", "env".  *)

ResNames == {"x", "y"}
AskNames == {"x", "y", "z"}
ModNames == {"m", "local", "up", "env"}
Qualifiers == {"", "env", "local", "up", "m", "other"}

\* a namespace binding the names ks, each to a variable box of its own
\* (the boxes from base on)
NsOf(ks, base) ==
    [n \in ks |-> PtrVar(base + (CHOOSE i \in 1..2 : <<"x", "y">>[i] = n))]

InitResolve ==
    /\ \E lk \in SUBSET ResNames, uk \in SUBSET ResNames, mk \in SUBSET ResNames :
          nss = <<NsOf(lk, 0), NsOf(uk, 2), NsOf(mk, 4)>>
    /\ \E ms \in SUBSET ModNames : mod = [n \in ms |-> 3]
    /\ boxes = <<"l.x", "l.y", "u.x", "u.y", "m.x", "m.y">>
    /\ ctxs = <<[Evaler |-> 1, name |-> "[eval]", text |-> <<120>>, context |-> "top",
                 local |-> 1, up |-> 2, ports |-> 1]>>
    /\ arrays = <<<<>>>> /\ ports = <<>>
    /\ chans = <<>> /\ outDone = <<>> /\ workers = <<>>
    /\ stdout = <<>> /\ sent = <<>>
    /\ pc = "resolve" /\ stack = <<>> /\ text = <<>> /\ err = NoError
    /\ ret = NoError /\ ncalls = 0
    /\ caught = <<>> /\ thrown = <<>> /\ fname = ""
    /\ closed = {} /\ parent = <<0>> /\ decl = NoDecl /\ q = <<>>

\* ec.ResolveVar(ns, name)
Resolve ==
    /\ pc = "resolve"
    /\ \E ns \in Qualifiers, name \in AskNames :
          q' = [ns |-> ns, name |-> name, result |-> ResolveVar(1, ns, name)]
    /\ pc' = "resolved"
    /\ UNCHANGED <<heapVars, relayVars, stack, text, err, ret, ncalls, caught,
                   thrown, fname, closed, parent, decl>>

SpecResolve == InitResolve /\ [][Resolve]_vars

Resolved == pc = "resolved"
LocalNs == nss[ctxs[1].local]
UpNs == nss[ctxs[1].up]

C6_QualifiedOneSource ==
    (Resolved /\ q.ns # "") =>
        q.result =
            IF q.ns = "env" THEN [kind |-> "env", box |-> 0, name |-> q.name]
            ELSE IF q.ns \in DOMAIN mod THEN MapIndex(nss[mod[q.ns]], q.name)
            ELSE IF q.ns = "local" THEN MapIndex(LocalNs, q.name)
            ELSE IF q.ns = "up" THEN MapIndex(UpNs, q.name)
            ELSE NilVar

\* a name that a registered module does not bind, but local does, was
\* resolved in the module: absent
C6_Witness ==
    /\ Resolved /\ q.ns = "m" /\ "m" \in DOMAIN mod
    /\ q.name \notin DOMAIN nss[mod["m"]]
    /\ q.name \in DOMAIN LocalNs
    /\ q.result = NilVar


-----------------------------------------------------------------------------
(* PprintError as a function of the error.  An error is nil, a flow (a     *)
(* flow-control signal), a multiError (errors, each the inner error of one *)
(* element of e.errors) or any other error; what is printed is the         *)
(* sequence of the strings passed to fmt.Print.                            *)

\* the sub-errors of one multiError
MaxSubErrors == 2

FlowError(msg) == [kind |-> "flow", msg |-> msg]
OtherError(msg) == [kind |-> "other", msg |-> msg]
MultiError(errors) == [kind |-> "multi", errors |-> errors]

\* e.Error()
ErrorString(e) == e.msg

SeqsUpTo(S, n) == UNION {[1..k -> S] : k \in 0..n}

LeafErrors == {NoError, FlowError("break"), OtherError("break")}
FlatMultiErrors == {MultiError(es) : es \in SeqsUpTo(LeafErrors, MaxSubErrors)}
\* the errors PprintError is given: leaves, aggregates, aggregates of both
PprintInputs ==
    LeafErrors \cup FlatMultiErrors
        \cup {MultiError(es) : es \in SeqsUpTo(LeafErrors \cup FlatMultiErrors, MaxSubErrors)}

\* the loop that prints the separator before the first sub-error too
RECURSIVE PprintError(_)
RECURSIVE PprintSubErrorsSepFirst(_, _)
PprintSubErrorsSepFirst(errors, i) ==
    IF i >= Len(errors) THEN <<>>
    ELSE <<" | ">> \o PprintError(errors[i + 1])
            \o PprintSubErrorsSepFirst(errors, i + 1)

\* the loop over e.errors from index i on (indices count from 0)
RECURSIVE PprintSubErrors(_, _)
PprintSubErrors(errors, i) ==
    IF i >= Len(errors) THEN <<>>
    ELSE (IF i > 0 THEN <<" | ">> ELSE <<>>)
            \o PprintError(errors[i + 1])
            \o PprintSubErrors(errors, i + 1)

PprintError(e) ==
    CASE e.kind = "nil" -> <<"\\033[32mok\\033[m">>
      [] e.kind = "multi" -> <<"(">> \o PprintSubErrors(e.errors, 0) \o <<")">>
      [] e.kind = "flow" -> <<"\\033[33m" \o ErrorString(e) \o "\\033[m">>
      [] OTHER -> <<"\\033[31;1m" \o ErrorString(e) \o "\\033[m">>

InitPprint ==
    /\ err \in PprintInputs
    /\ q = [e |-> err]
    /\ stdout = <<>>
    /\ pc = "pprint"
    /\ nss = <<NewEvalerGlobal>> /\ boxes = NewEvalerBoxes /\ mod = EmptyMap
    /\ ctxs = <<>> /\ arrays = <<>> /\ ports = <<>>
    /\ chans = <<>> /\ outDone = <<>> /\ workers = <<>> /\ sent = <<>>
    /\ stack = <<>> /\ text = <<>> /\ ret = NoError /\ ncalls = 0
    /\ caught = <<>> /\ thrown = <<>> /\ fname = ""
    /\ closed = {} /\ parent = <<>> /\ decl = NoDecl

\* PprintError(err)
Pprint ==
    /\ pc = "pprint"
    /\ stdout' = stdout \o PprintError(err)
    /\ pc' = "printed"
    /\ UNCHANGED <<heapVars, chans, outDone, workers, sent, stack, text, err,
                   ret, ncalls, caught, thrown, fname, auxVars>>

SpecPprint == InitPprint /\ [][Pprint]_vars

\* the rendering of an error as the claim describes it: the fixed ok
\* marker, one treatment for a flow, another for any other failure, and
\* for an aggregate "(" r1 " | " ... " | " rk ")" over the renderings of
\* its sub-errors in their order
RECURSIVE Rendering(_)
RECURSIVE Joined(_)
Joined(es) ==
    IF es = <<>> THEN <<>>
    ELSE IF Len(es) = 1 THEN Rendering(es[1])
    ELSE Joined(SubSeq(es, 1, Len(es) - 1)) \o <<" | ">> \o Rendering(es[Len(es)])
Rendering(e) ==
    IF e.kind = "nil" THEN <<"\\033[32mok\\033[m">>
    ELSE IF e.kind = "flow" THEN <<"\\033[33m" \o e.msg \o "\\033[m">>
    ELSE IF e.kind = "other" THEN <<"\\033[31;1m" \o e.msg \o "\\033[m">>
    ELSE <<"(">> \o Joined(e.errors) \o <<")">>

\* C10: PprintError prints the fixed ok marker for success, a flow and
\* any other failure with two different treatments (the renderings of a
\* flow and of another failure with the same message differ), and an
\* aggregate of e1..ek as "(" render(e1) " | " ... " | " render(ek) ")",
\* sub-errors in their order and rendered recursively; the error passed
\* in is the same after the call.
C10_PprintRendering ==
    pc = "printed" =>
        /\ stdout = Rendering(q.e)
        /\ err = q.e
        /\ q.e.kind = "flow" => stdout # Rendering(OtherError(q.e.msg))
        /\ q.e.kind = "other" => stdout # Rendering(FlowError(q.e.msg))

\* an aggregate of a flow and of an aggregate of two failures was printed
C10_Witness ==
    /\ pc = "printed"
    /\ q.e = MultiError(<<FlowError("break"),
                          MultiError(<<OtherError("break"), OtherError("break")>>)>>)
    /\ stdout = <<"(", "\\033[33mbreak\\033[m", " | ",
                  "(", "\\033[31;1mbreak\\033[m", " | ", "\\033[31;1mbreak\\033[m", ")",
                  ")">>

-----------------------------------------------------------------------------
(* The operations on the ports of a context, one call at a time: Eval on   *)
(* the ports of a host, then fork, growPorts, port and the rebinding of a  *)
(* descriptor by the running operation, and the return of a nested         *)
(* operation.  q is the call made last: its name, its receiver, its        *)
(* arguments and its result.  pc is "host", "ctx" or "crashed" as above.   *)

\* the forks nested in one another in one evaluation
MaxForks == 2

\* the call made last
Call(op, ec, n, label, res) == [op |-> op, ec |-> ec, n |-> n, label |-> label, res |-> res]

\* the slice the host passed to Eval
hostPorts == 1

\* the host calls Eval with ports of its own making, owned by them or not
PortsEval ==
    /\ pc = "host"
    /\ \E own \in BOOLEAN :
          ports' = <<Port(osStdin, Nil, own, FALSE),
                     Port(osStdout, 1, own, own),
                     Port(osStderr, Nil, own, FALSE)>>
    /\ chans' = <<[buf |-> <<>>, closed |-> FALSE]>>
    /\ arrays' = <<<<1, 2, 3>>>>
    /\ nss' = <<nss[evGlobal], EmptyMap>>
    /\ ctxs' = <<NewTopEvalCtx(1, "[eval]", <<120>>, hostPorts, 2)>>
    /\ stack' = <<PEvalFrame(1)>>
    /\ parent' = <<0>>
    /\ pc' = "ctx"
    /\ q' = Call("Eval", 1, 0, "", 0)
    /\ UNCHANGED <<boxes, mod, outDone, workers, stdout, sent, text, err, ret,
                   ncalls, caught, thrown, fname, closed, decl>>

\* ec.fork(label), and a nested operation started on the result
PortsFork ==
    /\ pc = "ctx" /\ Len(stack) <= MaxForks
    /\ \E label \in Labels :
          IF ForkPanics(CurEc)
          THEN /\ pc' = "crashed"
               /\ q' = Call("fork", CurEc, 0, label, 0)
               /\ UNCHANGED <<ctxs, arrays, ports, parent, stack>>
          ELSE /\ fork(CurEc, label)
               /\ parent' = Append(parent, CurEc)
               /\ stack' = Append(stack, OpFrame(Len(ctxs) + 1))
               /\ q' = Call("fork", CurEc, 0, label, Len(ctxs) + 1)
               /\ UNCHANGED pc
    /\ UNCHANGED <<nss, boxes, mod, relayVars, text, err, ret, ncalls, caught,
                   thrown, fname, closed, decl>>

\* ec.growPorts(n)
PortsGrow ==
    /\ pc = "ctx"
    /\ \E n \in 0..MaxPorts :
          /\ growPorts(CurEc, n)
          /\ q' = Call("growPorts", CurEc, n, "", 0)
    /\ UNCHANGED <<nss, boxes, mod, ports, relayVars, threadVars, closed,
                   parent, decl>>

\* ec.port(i)
PortsPort ==
    /\ pc = "ctx"
    /\ \E i \in 0..MaxPorts : q' = Call("port", CurEc, i, "", port(CurEc, i))
    /\ UNCHANGED <<heapVars, relayVars, threadVars, closed, parent, decl>>

\* a redirection on descriptor i - 1: ec.ports[i] becomes a new port on a
\* file the context opens, or the port it is now is set to that file
PortsRebind ==
    /\ pc = "ctx"
    /\ Cardinality(Handles \ StdHandles) < MaxOpens
    /\ \E i \in 1..Len(Slice(CurEc)) :
          /\ \/ /\ arrays' = [arrays EXCEPT ![ctxs[CurEc].ports][i] = Len(ports) + 1]
                /\ ports' = Append(ports, Port(FreshHandle, Nil, TRUE, FALSE))
             \/ /\ Slice(CurEc)[i] # Nil
                /\ ports' = [ports EXCEPT ![Slice(CurEc)[i]] =
                                Port(FreshHandle, Nil, TRUE, FALSE)]
                /\ UNCHANGED arrays
          /\ q' = Call("rebind", CurEc, i - 1, "", 0)
    /\ UNCHANGED <<nss, boxes, mod, ctxs, relayVars, threadVars, closed,
                   parent, decl>>

\* the running operation returns: a nested one to the operation that
\* forked, whose context is the running one again, the outermost one to
\* the host
PortsReturn ==
    /\ pc = "ctx"
    /\ stack' = SubSeq(stack, 1, Len(stack) - 1)
    /\ q' = Call("return", CurEc, 0, "", 0)
    /\ IF Len(stack) = 1
       THEN pc' = "host" /\ UNCHANGED <<ctxs, arrays, ports, parent>>
       ELSE /\ ctxs' = SubSeq(ctxs, 1, Len(ctxs) - 1)
            /\ arrays' = SubSeq(arrays, 1, stack[Len(stack)].arrBase)
            /\ ports' = SubSeq(ports, 1, stack[Len(stack)].portBase)
            /\ parent' = SubSeq(parent, 1, Len(parent) - 1)
            /\ UNCHANGED pc
    /\ UNCHANGED <<nss, boxes, mod, relayVars, text, err, ret, ncalls, caught,
                   thrown, fname, closed, decl>>

InitPorts ==
    /\ nss = <<NewEvalerGlobal>>
    /\ boxes = NewEvalerBoxes
    /\ mod = EmptyMap
    /\ ctxs = <<>> /\ arrays = <<>> /\ ports = <<>>
    /\ chans = <<>> /\ outDone = <<>> /\ workers = <<>>
    /\ stdout = <<>> /\ sent = <<>>
    /\ pc = "host" /\ stack = <<>> /\ text = <<>> /\ err = NoError
    /\ ret = NoError /\ ncalls = 0
    /\ caught = <<>> /\ thrown = <<>> /\ fname = ""
    /\ closed = {} /\ parent = <<>> /\ decl = NoDecl
    /\ q = Call("NewEvaler", 0, 0, "", 0)

NextPorts ==
    \/ PortsEval \/ PortsFork \/ PortsGrow \/ PortsPort \/ PortsRebind
    \/ PortsReturn

SpecPorts == InitPorts /\ [][NextPorts]_vars

-----------------------------------------------------------------------------
(* Properties of fork, growPorts and port (checked under SpecPorts) *)

\* this step is a call of fork that returns
ForkReturns == q'.op = "fork" /\ q'.res # 0 /\ Len(ctxs') = Len(ctxs) + 1

\* C11: fork(ctx, label) returns a context that shares the Engine, the
\* program name, the source text and both namespaces (the same
\* references) with ctx and carries the new phase label; its port
\* sequence has the length of ctx's, and for each present port i of ctx
\* the child's port i is another, newly made port object with the same
\* file handle and the same queue and with both ownership flags false;
\* ctx, its port sequence and every port that existed before, ownership
\* flags included, are unchanged.
C11_ForkCopies ==
    [][ForkReturns =>
         LET p == q'.ec
             c == q'.res
             old == arrays[ctxs[p].ports]
             new == arrays'[ctxs'[c].ports]
         IN  /\ c \notin Ctxs
             /\ ctxs'[c].Evaler = ctxs[p].Evaler
             /\ ctxs'[c].name = ctxs[p].name
             /\ ctxs'[c].text = ctxs[p].text
             /\ ctxs'[c].local = ctxs[p].local
             /\ ctxs'[c].up = ctxs[p].up
             /\ ctxs'[c].context = q'.label
             /\ Len(new) = Len(old)
             /\ \A i \in 1..Len(old) :
                   old[i] # Nil =>
                       /\ new[i] # Nil /\ new[i] # old[i]
                       /\ new[i] \notin 1..Len(ports)
                       /\ \A j \in 1..Len(new) : j # i => new[j] # new[i]
                       /\ ports'[new[i]].File = ports[old[i]].File
                       /\ ports'[new[i]].Chan = ports[old[i]].Chan
                       /\ ~ports'[new[i]].CloseFile
                       /\ ~ports'[new[i]].CloseChan
             /\ ctxs'[p] = ctxs[p]
             /\ arrays'[ctxs'[p].ports] = old
             /\ \A r \in 1..Len(ports) : ports'[r] = ports[r]
             /\ nss' = nss
      ]_vars

\* a fork of a fork was made of a context whose three ports own their
\* files and whose descriptor 1 owns its queue
C11_Witness ==
    /\ pc = "ctx" /\ q.op = "fork" /\ q.res = 3 /\ q.ec = 2
    /\ ctxs[3].context = "pipeline" /\ ctxs[1].context = "top"
    /\ ports[Slice(1)[2]].CloseFile /\ ports[Slice(1)[2]].CloseChan
    /\ ports[Slice(1)[2]].Chan = 1
    /\ ports[Slice(3)[2]] = Port(osStdout, 1, FALSE, FALSE)
    /\ Slice(3)[2] # Slice(1)[2]

\* C12: fork is defined on every context reached through NewTopEvalCtx,
\* growPorts and fork, also on one whose port sequence holds absent
\* entries (growPorts has extended it): the call raises no failure and
\* returns a child whose port sequence has the same length, with absent
\* entries at exactly the indices where its receiver's are absent.
C12_ForkDefined ==
    q.op = "fork" =>
        /\ pc # "crashed"
        /\ q.res \in Ctxs
        /\ Len(Slice(q.res)) = Len(Slice(q.ec))
        /\ \A i \in 1..Len(Slice(q.ec)) :
              (Slice(q.res)[i] = Nil) <=> (Slice(q.ec)[i] = Nil)

\* the port sequence of the context c, and the ports in it, are the same
\* after this step: same length, same port objects, and each of them with
\* the same file handle, queue and ownership flags
SamePorts(c) ==
    /\ arrays'[ctxs'[c].ports] = arrays[ctxs[c].ports]
    /\ \A r \in PortRefs(c) : ports'[r] = ports[r]

\* the same of the slice the host passed to Eval
SameHostPorts ==
    /\ arrays'[hostPorts] = arrays[hostPorts]
    /\ \A i \in 1..Len(arrays[hostPorts]) :
          arrays[hostPorts][i] # Nil =>
              ports'[arrays[hostPorts][i]] = ports[arrays[hostPorts][i]]

\* C13: after a fork, rebinding a descriptor in the child (its port i
\* replaced, or modified) and growPorts on the child leave the port
\* sequence of the parent (and of every context above it) unchanged: same
\* length, same port objects, same file handles, queues and ownership
\* flags; and growPorts on a top-level context does not change the port
\* sequence held by the caller that supplied it.
C13_ParentPortsUnchanged ==
    [][/\ (q'.op \in {"rebind", "growPorts"} /\ parent[q'.ec] # 0) =>
              /\ SamePorts(parent[q'.ec])
              /\ \A c \in Ctxs \ {q'.ec} : SamePorts(c)
       /\ (q'.op = "growPorts" /\ parent[q'.ec] = 0) => SameHostPorts
      ]_vars

\* a forked context has rebound a descriptor to a file it opened and has
\* then grown its ports; its parent has the three ports of the host
C13_Witness ==
    /\ pc = "ctx" /\ q.op = "growPorts" /\ q.ec = 2 /\ parent[2] = 1
    /\ Len(Slice(2)) = 4
    /\ \E i \in 1..3 : ports[Slice(2)[i]].File \notin StdHandles
    /\ Slice(1) = <<1, 2, 3>>
    /\ \A i \in 1..3 : ports[i].File \in StdHandles

\* C14: for every context and every sequence of growPorts calls, the
\* length of the port sequence never decreases and is max(old length, n)
\* after growPorts(n); the entries below the old length keep their
\* identity and their ownership flags, the new entries are absent; and
\* growPorts(n) applied twice is growPorts(n) applied once: after the
\* call the length is at least n, and the same call made again changes
\* neither the context nor any port sequence.
C14_GrowPorts ==
    [][q'.op = "growPorts" =>
         LET ec == q'.ec
             n == q'.n
             old == arrays[ctxs[ec].ports]
             new == arrays'[ctxs'[ec].ports]
         IN  /\ Len(new) >= Len(old)
             /\ Len(new) = IF Len(old) >= n THEN Len(old) ELSE n
             /\ Len(new) >= n
             /\ \A i \in 1..Len(old) : new[i] = old[i]
             /\ \A i \in (Len(old) + 1)..Len(new) : new[i] = Nil
             /\ ports' = ports
             /\ (q.op = "growPorts" /\ q.ec = ec /\ q.n = n) =>
                   UNCHANGED <<ctxs, arrays>>
      ]_vars

\* growPorts(2) was called on a context that growPorts had extended from
\* three ports to four
C14_Witness ==
    /\ pc = "ctx" /\ q.op = "growPorts" /\ q.n = 2
    /\ Len(Slice(q.ec)) = 4
    /\ Slice(q.ec)[4] = Nil
    /\ \A i \in 1..3 : Slice(q.ec)[i] # Nil

\* C15: in every context reached by NewTopEvalCtx, fork and growPorts,
\* port(i) for an index i at or above the current length returns absent,
\* signals no error and neither extends nor otherwise changes the port
\* sequence, and port(i) for 0 <= i < length returns the entry stored at
\* i (absent where growPorts left it absent).
C15_PortLookup ==
    [][q'.op = "port" =>
         LET seq == arrays[ctxs[q'.ec].ports]
             i == q'.n
         IN  /\ i >= Len(seq) => q'.res = Nil
             /\ i < Len(seq) => q'.res = seq[i + 1]
             /\ pc' = pc
             /\ UNCHANGED <<ctxs, arrays, ports>>
      ]_vars

\* a forked context that growPorts extended to four entries was asked for
\* port 4, then for port 1
C15_Witness ==
    /\ pc = "ctx" /\ q.op = "port" /\ q.ec = 2 /\ parent[2] = 1
    /\ Len(Slice(2)) = 4 /\ Slice(2)[4] = Nil
    /\ q.n = 1 /\ q.res = Slice(2)[2] /\ q.res # Nil
    /\ port(2, 4) = Nil /\ port(2, 3) = Nil

\* C16: a context is not modified after its creation: no call of fork,
\* port or growPorts changes the Engine reference, the program name, the
\* source text, the phase label, the namespace references or the port
\* sequence of a context that exists already.
C16_ContextNotModified ==
    [][q'.op \in {"fork", "port", "growPorts"} =>
         \A c \in Ctxs :
             /\ ctxs'[c] = ctxs[c]
             /\ arrays'[ctxs'[c].ports] = arrays[ctxs[c].ports]
      ]_vars

-----------------------------------------------------------------------------
(* Properties of the relay queue (checked under Spec) *)

\* the operation is running and has values left to write
Producing == pc = "op" /\ Len(sent) < MaxWrites

\* the queue of the call in progress is full
QueueFull == chans # <<>> /\ Len(chans[outCh].buf) = outChanSize

\* C17: during EvalInteractive the relay queue never holds more than its
\* capacity of 32 values not yet rendered; a write to the full queue
\* suspends the producer (the write happens exactly when the queue is not
\* full, which it is again once the drain worker has taken a value); and
\* the drain worker, at its receive, is suspended exactly while the queue
\* is empty and not closed.
C17_BoundedQueue ==
    /\ \A c \in 1..Len(chans) : Len(chans[c].buf) <= outChanSize
    /\ Producing => ((ENABLED OpWrite) <=> ~QueueFull)
    /\ \A c \in 1..Len(workers) :
          workers[c].pc = "range" =>
              ((ENABLED WorkerRange(c)) <=>
                  ~(chans[c].buf = <<>> /\ ~chans[c].closed))

\* the producer, which a full queue had suspended, has written value 33
\* after the worker took value 1; the queue is full again
C17_Witness ==
    /\ Producing /\ QueueFull
    /\ Len(sent) = outChanSize + 1
    /\ workers[outCh] = [pc |-> "print", v |-> 1]
    /\ ~ENABLED OpWrite

\* Eval has not returned yet in the call in progress
InEval == pc \in {"Eval", "op"}

\* C19: in each EvalInteractive call the relay queue is closed exactly
\* once (a close is a step of EvalInteractive on its own, still open
\* queue; no close of a closed queue, which would panic), and only after
\* Eval has returned, on the success and on the error path alike; the
\* evaluation writes no value to the queue after it was closed; and the
\* worker raises its completion signal only after it has found the queue
\* closed (and empty).
C19_ClosedOnceAfterEval ==
    /\ [](/\ pc # "crashed"
          /\ (InEval \/ pc = "close") => ~chans[outCh].closed
          /\ pc = "wait" => chans[outCh].closed
          /\ \A c \in 1..Len(chans) :
                /\ c < outCh => chans[c].closed
                /\ outDone[c] => chans[c].closed /\ workers[c].pc = "done"
                /\ workers[c].pc \in {"close", "done"} => chans[c].closed)
    /\ [][/\ \A c \in 1..Len(chans) :
                chans'[c].closed # chans[c].closed =>
                    /\ c = outCh /\ pc = "close" /\ pc' = "wait"
                    /\ stack = <<>>
                    /\ ~chans[c].closed /\ chans'[c].closed
                    /\ ~outDone[c]
          /\ Len(sent') > Len(sent) => pc = "op" /\ ~chans[outCh].closed
          /\ \A c \in 1..Len(outDone) :
                outDone'[c] # outDone[c] =>
                    /\ workers[c].pc = "close"
                    /\ chans[c].closed /\ chans[c].buf = <<>>
         ]_vars

\* the second call has closed its queue after a non-local exit that
\* followed two writes, and its worker has raised the completion signal
C19_Witness ==
    /\ pc = "wait" /\ ncalls = 2 /\ Len(chans) = 2
    /\ thrown # <<>> /\ Len(sent) = 2
    /\ chans[1].closed /\ chans[2].closed
    /\ outDone[2] /\ workers[2].pc = "done"

-----------------------------------------------------------------------------
(* The relay under fair scheduling.  The operation writes, raises a        *)
(* non-local exit or returns; the goroutines that can run do run: the      *)
(* drain goroutine, and the calling one at close(outCh) and at <-outDone.  *)
(* Nothing obliges the operation itself to take its next step.             *)

NextRelay ==
    \/ HostCall \/ Source \/ SourceText \/ EvalInteractive \/ Eval
    \/ OpWrite \/ OpErrorf \/ OpFinish
    \/ CloseOutCh \/ WaitOutDone
    \/ Worker

SpecRelayFair ==
    /\ Init /\ [][NextRelay]_vars
    /\ WF_vars(Worker) /\ WF_vars(CloseOutCh) /\ WF_vars(WaitOutDone)

\* C18: under fair scheduling of the drain worker, EvalInteractive
\* eventually returns once the evaluated operation has terminated (Eval
\* has returned), for every number of written values, more than the
\* queue holds included; producer and worker never deadlock (a full queue
\* that suspends the producer is eventually not full); and when the call
\* returns its worker has terminated, so that a worker that has not
\* terminated is always the one of the call in progress.
C18_EventuallyReturns ==
    /\ (pc = "close") ~> (pc = "idle")
    /\ (Producing /\ QueueFull) ~> ~QueueFull
    /\ [](\A c \in 1..Len(workers) :
             workers[c].pc # "done" =>
                 c = outCh /\ pc \in {"Eval", "op", "close", "wait"})

\* the second call has returned after writing as many values as an
\* operation writes, more than the queue holds; both workers have
\* terminated
C18_Witness ==
    /\ pc = "idle" /\ ncalls = 2 /\ Len(workers) = 2
    /\ Len(sent) = MaxWrites /\ Len(sent) > outChanSize
    /\ Len(stdout) = Len(sent)
    /\ \A c \in 1..2 : workers[c].pc = "done"

-----------------------------------------------------------------------------
(* The relay and forked contexts: the operation and its nested operations  *)
(* write to the channel of descriptor 1 of their own context.  q is the    *)
(* sequence of the contexts the values were written through, over all      *)
(* calls; the writes of the call in progress are its last Len(sent)        *)
(* elements.                                                               *)

\* the values written in one run
MaxVia == 2

\* the running operation writes the next value to the channel of
\* descriptor 1 of its context
OpWriteVia ==
    /\ pc = "op" /\ Len(q) < MaxVia
    /\ port(CurEc, 1) # Nil /\ ports[port(CurEc, 1)].Chan # Nil
    /\ LET ch == ports[port(CurEc, 1)].Chan
           v == Len(sent) + 1
       IN  IF chans[ch].closed
           THEN pc' = "crashed" /\ UNCHANGED <<chans, sent, q>>
           ELSE /\ CanSend(ch)
                /\ chans' = [chans EXCEPT ![ch].buf = Append(@, v)]
                /\ sent' = Append(sent, v)
                /\ q' = Append(q, CurEc)
                /\ UNCHANGED pc
    /\ UNCHANGED <<heapVars, outDone, workers, stdout, stack, text, err, ret,
                   ncalls, caught, thrown, fname, closed, parent, decl>>

NextVia ==
    \/ HostCall \/ Source \/ SourceText \/ EvalInteractive \/ Eval
    \/ OpWriteVia \/ OpFork \/ OpReturn \/ OpErrorf \/ OpFinish
    \/ CloseOutCh \/ WaitOutDone
    \/ Worker

SpecVia == Init /\ [][NextVia]_vars

\* the contexts the values of the call in progress were written through
Writers == SubSeq(q, Len(q) - Len(sent) + 1, Len(q))

\* the values of the call in progress that are in the hands of its worker
\* or in its queue, oldest first
InFlight ==
    IF chans = <<>> THEN <<>>
    ELSE (IF workers[outCh].pc = "print" THEN <<workers[outCh].v>> ELSE <<>>)
            \o chans[outCh].buf

\* C20: during EvalInteractive, descriptor 1 of every context forked at
\* any depth from the top-level context refers to the relay queue that
\* descriptor 1 of the top-level context refers to, through a port of its
\* own; a value written through any of them goes to that one queue; and
\* the values rendered, followed by those in flight, are at any time the
\* values written, each once and in the order of the writes over all
\* contexts, all of them rendered when the call has returned.
C20_OneRelayQueue ==
    /\ [](/\ \A c \in Ctxs :
                /\ port(c, 1) # Nil
                /\ ports[port(c, 1)].Chan = outCh
                /\ ports[port(c, 1)].Chan = ports[port(1, 1)].Chan
                /\ \A d \in Ctxs : d # c => port(d, 1) # port(c, 1)
          /\ Len(Writers) = Len(sent)
          /\ stdout \o LinesOf(InFlight) = LinesOf(sent)
          /\ pc = "idle" => stdout = LinesOf(sent))
    /\ [][Len(sent') > Len(sent) =>
            /\ q' = Append(q, CurEc)
            /\ chans'[outCh].buf = Append(chans[outCh].buf, Len(sent) + 1)
            /\ \A c \in 1..Len(chans) : c # outCh => chans'[c] = chans[c]
         ]_vars

\* two values, the first written through a fork of a fork and the second
\* through the top-level context, have been rendered in that order
C20_Witness ==
    /\ pc = "idle" /\ Writers = <<3, 1>>
    /\ stdout = <<<<outChanLeader, 1>>, <<outChanLeader, 2>>>>


====
